---- MODULE Spec2Model ----
(***************************************************************************)
(* Model of blueos-ppp: the pppd supervisor (app/ppp_process.py), the      *)
(* settings store (app/settings.py) and the parts of the HTTP controller   *)
(* (app/main.py) that use them.                                            *)
(***************************************************************************)
EXTENDS Integers, Sequences, FiniteSets, TLC

(***************************************************************************)
(* Bounds                                                                  *)
(***************************************************************************)
MaxCalls == 2        \* start()/stop() calls made by controller threads
MaxProcs == 2        \* Popen objects ever created by the loop
MaxShutdowns == 2    \* calls of shutdown()
MaxConfigs == 1      \* reconfigurations (four attribute writes each)

(***************************************************************************)
(* Python values: str and int are kept apart, as json and f-strings do.    *)
(***************************************************************************)
PyStr(s) == [t |-> "str", v |-> s]
PyInt(n) == [t |-> "int", v |-> n]

\* str(x) as used by an f-string replacement field
Format(x) == IF x.t = "int" THEN ToString(x.v) ELSE x.v

PPPD_EXECUTABLE == "/ppp_ws/ppp/pppd/pppd"

\* the configurations a caller supplies: the documented defaults and the
\* configuration of the spec's scenario
CfgDefault ==
    [device |-> PyStr("/dev/ttyS0"), baudrate |-> PyStr("921600"),
     local |-> PyStr("192.168.1.205"), remote |-> PyStr("192.168.1.200")]
CfgUsb ==
    [device |-> PyStr("/dev/ttyUSB0"), baudrate |-> PyInt(115200),
     local |-> PyStr("10.0.0.1"), remote |-> PyStr("10.0.0.2")]
Configs == {CfgDefault, CfgUsb}

None == 0
Pids == 1..MaxProcs

VARIABLES
    \* PPPDaemon attributes
    device, baudrate, local, remote,
    is_enabled, do_shutdown,
    lock,               \* holder of self.lock: "free", "loop", "ctl", "shut"
    \* child_task: position and locals
    pc, l_is_enabled, l_do_shutdown, is_running, pppd_process, args,
    \* Popen objects and the OS processes behind them
    nprocs, proc, returncode, procArgs,
    \* caller threads
    ctlPc, callsLeft,
    shutPc, shutCalls,
    cfgPc, cfgNew, cfgLeft,
    \* settings.py: the module global, the settings file and the disk under it
    DEFAULT_SETTINGS, file, disk,
    \* the last call made to the store or the controller and what it returned
    nops, ret,
    \* what the successful updates since the last foreign write have stored
    lastWritten,
    \* main.py: the module globals, the start_ppp_internal tasks created and
    \* not yet run, the start handler's position, whether on_startup has run
    ppp_running, ppp_daemon, tasks, startPc, booted,
    \* whether a start request has been answered with success
    startOk,
    \* two threads inside update_pppd_device / update_pppd_baudrate: position,
    \* the dictionary get_settings returned and whether it is DEFAULT_SETTINGS
    \* itself, the value to store, the value returned, the calls still to make
    upc, udoc, uref, uval, uret, ucalls

storeVars == <<DEFAULT_SETTINGS, file, disk, nops, ret, lastWritten>>

mainVars == <<ppp_running, ppp_daemon, tasks, startPc, booted, startOk>>

raceVars == <<upc, udoc, uref, uval, uret, ucalls>>

supVars == <<device, baudrate, local, remote, is_enabled, do_shutdown, lock,
             pc, l_is_enabled, l_do_shutdown, is_running, pppd_process, args,
             nprocs, proc, returncode, procArgs,
             ctlPc, callsLeft, shutPc, shutCalls, cfgPc, cfgNew, cfgLeft>>

attrVars == <<device, baudrate, local, remote>>
flagVars == <<is_enabled, do_shutdown>>
loopVars == <<pc, l_is_enabled, l_do_shutdown, is_running, pppd_process, args>>
procVars == <<nprocs, proc, returncode, procArgs>>
ctlVars == <<ctlPc, callsLeft>>
shutVars == <<shutPc, shutCalls>>
cfgVars == <<cfgPc, cfgNew, cfgLeft>>

(***************************************************************************)
(* PPPDaemon.__init__                                                      *)
(***************************************************************************)
SupInit ==
    /\ \E c \in Configs :
          /\ device = c.device
          /\ baudrate = c.baudrate
          /\ local = c.local
          /\ remote = c.remote
    /\ is_enabled = FALSE
    /\ do_shutdown = FALSE
    /\ lock = "free"
    /\ pc = "while"
    /\ l_is_enabled = FALSE
    /\ l_do_shutdown = FALSE
    /\ is_running = FALSE
    /\ pppd_process = None
    /\ args = <<>>
    /\ nprocs = 0
    /\ proc = [p \in Pids |-> "unborn"]
    /\ returncode = [p \in Pids |-> FALSE]
    /\ procArgs = [p \in Pids |-> <<>>]
    /\ ctlPc = "idle"
    /\ callsLeft = MaxCalls
    /\ shutPc = "idle"
    /\ shutCalls = 0
    /\ cfgPc = 0
    /\ cfgNew = CfgDefault
    /\ cfgLeft = MaxConfigs

(***************************************************************************)
(* PPPDaemon.child_task                                                    *)
(***************************************************************************)

\* while not do_shutdown: ... falls out of the loop, the thread ends
LoopExit ==
    /\ pc = "while"
    /\ l_do_shutdown
    /\ pc' = "exited"
    /\ UNCHANGED <<mainVars, raceVars, storeVars,
                   attrVars, flagVars, lock, l_is_enabled, l_do_shutdown,
                   is_running, pppd_process, args, procVars, ctlVars,
                   shutVars, cfgVars>>

\* while not do_shutdown: with self.lock:
LoopLockFlags ==
    /\ pc = "while"
    /\ ~l_do_shutdown
    /\ lock = "free"
    /\ lock' = "loop"
    /\ pc' = "read"
    /\ UNCHANGED <<mainVars, raceVars, storeVars,
                   attrVars, flagVars, l_is_enabled, l_do_shutdown,
                   is_running, pppd_process, args, procVars, ctlVars,
                   shutVars, cfgVars>>

\* is_enabled = self.is_enabled; do_shutdown = self.do_shutdown
LoopReadFlags ==
    /\ pc = "read"
    /\ l_is_enabled' = is_enabled
    /\ l_do_shutdown' = do_shutdown
    /\ lock' = "free"
    /\ pc' = "if_start"
    /\ UNCHANGED <<mainVars, raceVars, storeVars,
                   attrVars, flagVars, is_running, pppd_process, args,
                   procVars, ctlVars, shutVars, cfgVars>>

\* (mutant) the address pair is built as remote:local
MakeArgs_Swapped(d, b, l, r) ==
    <<PPPD_EXECUTABLE, Format(d), Format(b), Format(r) \o ":" \o Format(l),
      "debug", "noauth", "nodetach", "crtscts", "local", "proxyarp", "ktune">>

\* args = [PPPD_EXECUTABLE, f"{device}", f"{baudrate}", f"{local}:{remote}", ...]
MakeArgs(d, b, l, r) ==
    <<PPPD_EXECUTABLE, Format(d), Format(b), Format(l) \o ":" \o Format(r),
      "debug", "noauth", "nodetach", "crtscts", "local", "proxyarp", "ktune">>

\* (mutant) the launch condition looks at the desired state only
StartCond_EnabledOnly == l_is_enabled

\* (mutant) the loop also launches when the attributes no longer match the
\* arguments of the process it holds
StartCond_OnNewConfig ==
    /\ l_is_enabled
    /\ \/ ~is_running /\ pppd_process = None
       \/ is_running /\ args # MakeArgs(device, baudrate, local, remote)

\* if is_enabled and not is_running and pppd_process is None
StartCond == l_is_enabled /\ ~is_running /\ pppd_process = None

\* if not is_enabled and is_running and pppd_process is not None
StopCond == ~l_is_enabled /\ is_running /\ pppd_process # None

LoopSkipStart ==
    /\ pc = "if_start"
    /\ ~StartCond
    /\ pc' = "if_stop"
    /\ UNCHANGED <<mainVars, raceVars, storeVars,
                   attrVars, flagVars, lock, l_is_enabled, l_do_shutdown,
                   is_running, pppd_process, args, procVars, ctlVars,
                   shutVars, cfgVars>>

\* with self.lock: (around the construction of args)
LoopLockArgs ==
    /\ pc = "if_start"
    /\ StartCond
    /\ lock = "free"
    /\ lock' = "loop"
    /\ pc' = "args"
    /\ UNCHANGED <<mainVars, raceVars, storeVars,
                   attrVars, flagVars, l_is_enabled, l_do_shutdown,
                   is_running, pppd_process, args, procVars, ctlVars,
                   shutVars, cfgVars>>

\* (mutant) the with-block also covers the launch
LoopMakeArgs_HoldsLock ==
    /\ pc = "args"
    /\ args' = MakeArgs(device, baudrate, local, remote)
    /\ lock' = lock
    /\ pc' = "popen"
    /\ UNCHANGED <<mainVars, raceVars, storeVars,
                   attrVars, flagVars, l_is_enabled, l_do_shutdown,
                   is_running, pppd_process, procVars, ctlVars, shutVars,
                   cfgVars>>

LoopMakeArgs ==
    /\ pc = "args"
    /\ args' = MakeArgs(device, baudrate, local, remote)
    /\ lock' = "free"
    /\ pc' = "popen"
    /\ UNCHANGED <<mainVars, raceVars, storeVars,
                   attrVars, flagVars, l_is_enabled, l_do_shutdown,
                   is_running, pppd_process, procVars, ctlVars, shutVars,
                   cfgVars>>

\* pppd_process = subprocess.Popen(args); is_running = True
LoopPopenOk ==
    /\ pc = "popen"
    /\ nprocs < MaxProcs
    /\ nprocs' = nprocs + 1
    /\ proc' = [proc EXCEPT ![nprocs + 1] = "alive"]
    /\ procArgs' = [procArgs EXCEPT ![nprocs + 1] = args]
    /\ pppd_process' = nprocs + 1
    /\ is_running' = TRUE
    /\ pc' = "if_stop"
    /\ UNCHANGED <<mainVars, raceVars, storeVars,
                   attrVars, flagVars, lock, l_is_enabled, l_do_shutdown,
                   args, returncode, ctlVars, shutVars, cfgVars>>

\* subprocess.Popen raises (FileNotFoundError, PermissionError); nothing in
\* child_task catches it, so the exception ends the thread
LoopPopenRaises ==
    /\ pc = "popen"
    /\ pc' = "crashed"
    /\ UNCHANGED <<mainVars, raceVars, storeVars,
                   attrVars, flagVars, lock, l_is_enabled, l_do_shutdown,
                   is_running, pppd_process, args, procVars, ctlVars,
                   shutVars, cfgVars>>

LoopSkipStop ==
    /\ pc = "if_stop"
    /\ ~StopCond
    /\ pc' = "poll"
    /\ UNCHANGED <<mainVars, raceVars, storeVars,
                   attrVars, flagVars, lock, l_is_enabled, l_do_shutdown,
                   is_running, pppd_process, args, procVars, ctlVars,
                   shutVars, cfgVars>>

\* pppd_process.terminate(); time.sleep(1): during the grace period the
\* process either exits or ignores the signal
LoopTerminate ==
    /\ pc = "if_stop"
    /\ StopCond
    /\ \E obeys \in BOOLEAN :
          proc' = IF obeys THEN [proc EXCEPT ![pppd_process] = "dead"]
                  ELSE proc
    /\ pc' = "stop_poll"
    /\ UNCHANGED <<mainVars, raceVars, storeVars,
                   attrVars, flagVars, lock, l_is_enabled, l_do_shutdown,
                   is_running, pppd_process, args, nprocs, returncode,
                   procArgs, ctlVars, shutVars, cfgVars>>

\* Popen.poll(): sets returncode once the process has exited
Poll(p) == [returncode EXCEPT ![p] = (returncode[p] \/ proc[p] = "dead")]

\* (mutant) the stop sequence never force-kills
LoopStopPoll_NoKill ==
    /\ pc = "stop_poll"
    /\ returncode' = Poll(pppd_process)
    /\ pc' = "clear"
    /\ UNCHANGED <<mainVars, raceVars, storeVars,
                   attrVars, flagVars, lock, l_is_enabled, l_do_shutdown,
                   is_running, pppd_process, args, nprocs, proc, procArgs,
                   ctlVars, shutVars, cfgVars>>

\* pppd_process.poll(); if pppd_process.returncode is None: ...
LoopStopPoll ==
    /\ pc = "stop_poll"
    /\ returncode' = Poll(pppd_process)
    /\ pc' = IF returncode'[pppd_process] THEN "clear" ELSE "kill"
    /\ UNCHANGED <<mainVars, raceVars, storeVars,
                   attrVars, flagVars, lock, l_is_enabled, l_do_shutdown,
                   is_running, pppd_process, args, nprocs, proc, procArgs,
                   ctlVars, shutVars, cfgVars>>

\* pppd_process.kill(); time.sleep(1)
LoopKill ==
    /\ pc = "kill"
    /\ proc' = [proc EXCEPT ![pppd_process] = "dead"]
    /\ pc' = "clear"
    /\ UNCHANGED <<mainVars, raceVars, storeVars,
                   attrVars, flagVars, lock, l_is_enabled, l_do_shutdown,
                   is_running, pppd_process, args, nprocs, returncode,
                   procArgs, ctlVars, shutVars, cfgVars>>

\* pppd_process = None; is_running = False
LoopClear ==
    /\ pc = "clear"
    /\ pppd_process' = None
    /\ is_running' = FALSE
    /\ pc' = "poll"
    /\ UNCHANGED <<mainVars, raceVars, storeVars,
                   attrVars, flagVars, lock, l_is_enabled, l_do_shutdown,
                   args, procVars, ctlVars, shutVars, cfgVars>>

\* if pppd_process is not None: pppd_process.poll(); time.sleep(0.5)
LoopPoll ==
    /\ pc = "poll"
    /\ returncode' = IF pppd_process # None THEN Poll(pppd_process)
                     ELSE returncode
    /\ pc' = "while"
    /\ UNCHANGED <<mainVars, raceVars, storeVars,
                   attrVars, flagVars, lock, l_is_enabled, l_do_shutdown,
                   is_running, pppd_process, args, nprocs, proc, procArgs,
                   ctlVars, shutVars, cfgVars>>

\* the supervised pppd exits on its own (link failure, crash, external kill)
ProcExits ==
    /\ \E p \in Pids :
          /\ proc[p] = "alive"
          /\ proc' = [proc EXCEPT ![p] = "dead"]
    /\ UNCHANGED <<mainVars, raceVars, storeVars,
                   attrVars, flagVars, lock, loopVars, nprocs, returncode,
                   procArgs, ctlVars, shutVars, cfgVars>>

Loop ==
    \/ LoopExit \/ LoopLockFlags \/ LoopReadFlags \/ LoopSkipStart
    \/ LoopLockArgs \/ LoopMakeArgs \/ LoopPopenOk \/ LoopPopenRaises
    \/ LoopSkipStop \/ LoopTerminate \/ LoopStopPoll \/ LoopKill
    \/ LoopClear \/ LoopPoll

(***************************************************************************)
(* PPPDaemon.start / stop / shutdown                                       *)
(***************************************************************************)

\* start(): with self.lock:
StartLock ==
    /\ ctlPc = "idle"
    /\ callsLeft > 0
    /\ lock = "free"
    /\ lock' = "ctl"
    /\ ctlPc' = "start"
    /\ callsLeft' = callsLeft - 1
    /\ UNCHANGED <<mainVars, raceVars, storeVars,
                   attrVars, flagVars, loopVars, procVars, shutVars, cfgVars>>

\* self.is_enabled = True
StartWrite ==
    /\ ctlPc = "start"
    /\ is_enabled' = TRUE
    /\ lock' = "free"
    /\ ctlPc' = "idle"
    /\ UNCHANGED <<mainVars, raceVars, storeVars,
                   attrVars, do_shutdown, loopVars, procVars, callsLeft,
                   shutVars, cfgVars>>

\* stop(): with self.lock:
StopLock ==
    /\ ctlPc = "idle"
    /\ callsLeft > 0
    /\ lock = "free"
    /\ lock' = "ctl"
    /\ ctlPc' = "stop"
    /\ callsLeft' = callsLeft - 1
    /\ UNCHANGED <<mainVars, raceVars, storeVars,
                   attrVars, flagVars, loopVars, procVars, shutVars, cfgVars>>

\* self.is_enabled = False
StopWrite ==
    /\ ctlPc = "stop"
    /\ is_enabled' = FALSE
    /\ lock' = "free"
    /\ ctlPc' = "idle"
    /\ UNCHANGED <<mainVars, raceVars, storeVars,
                   attrVars, do_shutdown, loopVars, procVars, callsLeft,
                   shutVars, cfgVars>>

\* shutdown(): with self.lock:
ShutdownLock ==
    /\ shutPc \in {"idle", "returned"}
    /\ shutCalls < MaxShutdowns
    /\ lock = "free"
    /\ lock' = "shut"
    /\ shutPc' = "locked"
    /\ shutCalls' = shutCalls + 1
    /\ UNCHANGED <<mainVars, raceVars, storeVars,
                   attrVars, flagVars, loopVars, procVars, ctlVars, cfgVars>>

\* self.is_enabled = False; self.do_shutdown = True
ShutdownWrite ==
    /\ shutPc = "locked"
    /\ is_enabled' = FALSE
    /\ do_shutdown' = TRUE
    /\ lock' = "free"
    /\ shutPc' = "join"
    /\ UNCHANGED <<mainVars, raceVars, storeVars,
                   attrVars, loopVars, procVars, ctlVars, shutCalls, cfgVars>>

\* threading.Thread.is_alive() of self.thread
ThreadAlive == pc \notin {"exited", "crashed"}

\* (mutant) shutdown() returns without joining the thread
ShutdownJoin_NoWait ==
    /\ shutPc = "join"
    /\ shutPc' = "returned"
    /\ UNCHANGED <<mainVars, raceVars, storeVars,
                   attrVars, flagVars, lock, loopVars, procVars, ctlVars,
                   shutCalls, cfgVars>>

\* self.thread.join()
ShutdownJoin ==
    /\ shutPc = "join"
    /\ ~ThreadAlive
    /\ shutPc' = "returned"
    /\ UNCHANGED <<mainVars, raceVars, storeVars,
                   attrVars, flagVars, lock, loopVars, procVars, ctlVars,
                   shutCalls, cfgVars>>

(***************************************************************************)
(* Reconfiguration: the caller assigns the four attributes one by one,     *)
(* without taking self.lock (main.py, start_ppp_internal).                 *)
(***************************************************************************)
ConfigureBegin ==
    /\ cfgPc = 0
    /\ cfgLeft > 0
    /\ \E c \in Configs : cfgNew' = c
    /\ cfgPc' = 1
    /\ cfgLeft' = cfgLeft - 1
    /\ UNCHANGED <<mainVars, raceVars, storeVars,
                   attrVars, flagVars, lock, loopVars, procVars, ctlVars,
                   shutVars>>

ConfigureWrite ==
    /\ cfgPc \in 1..4
    /\ device' = IF cfgPc = 1 THEN cfgNew.device ELSE device
    /\ baudrate' = IF cfgPc = 2 THEN cfgNew.baudrate ELSE baudrate
    /\ local' = IF cfgPc = 3 THEN cfgNew.local ELSE local
    /\ remote' = IF cfgPc = 4 THEN cfgNew.remote ELSE remote
    /\ cfgPc' = IF cfgPc = 4 THEN 0 ELSE cfgPc + 1
    /\ UNCHANGED <<mainVars, raceVars, storeVars,
                   flagVars, lock, loopVars, procVars, ctlVars, shutVars,
                   cfgNew, cfgLeft>>

SupNext ==
    \/ Loop
    \/ ProcExits
    \/ StartLock \/ StartWrite \/ StopLock \/ StopWrite
    \/ ShutdownLock \/ ShutdownWrite \/ ShutdownJoin
    \/ ConfigureBegin \/ ConfigureWrite

vars == <<supVars, storeVars, mainVars, raceVars>>

(***************************************************************************)
(* settings.py                                                             *)
(***************************************************************************)
MaxOps == 3          \* calls made to the settings store and its endpoints

PyBool(b) == [t |-> "bool", v |-> b]
PyNone == [t |-> "none", v |-> ""]

\* Python dict operations
EmptyDict == [k \in {} |-> PyNone]
DictSet(d, k, v) == [x \in DOMAIN d \cup {k} |-> IF x = k THEN v ELSE d[x]]
DictGet(d, k, dflt) == IF k \in DOMAIN d THEN d[k] ELSE dflt

\* the literal DEFAULT_SETTINGS is bound to when the module is imported
DefaultSettingsLiteral ==
    [last_used |->
        [device |-> PyStr("/dev/ttyS0"),
         baudrate |-> PyStr("921600"),
         local_ip_address |-> PyStr("192.168.1.205"),
         remote_ip_address |-> PyStr("192.168.1.200")],
     pppd |->
        [enabled |-> PyBool(FALSE),
         device |-> PyStr("/dev/ttyS0"),
         baudrate |-> PyStr("921600"),
         local_ip_address |-> PyStr("192.168.1.205"),
         remote_ip_address |-> PyStr("192.168.1.200")]]

PppdKeys ==
    {"enabled", "device", "baudrate", "local_ip_address", "remote_ip_address"}

\* the values callers store
FieldValues(k) ==
    CASE k = "enabled" -> {PyBool(TRUE), PyBool(FALSE)}
      [] k = "device" -> {PyStr("/dev/ttyUSB0"), PyStr("/dev/ttyS0")}
      [] k = "baudrate" -> {PyInt(115200), PyStr("921600")}
      [] k = "local_ip_address" -> {PyStr("10.0.0.1")}
      [] k = "remote_ip_address" -> {PyStr("10.0.0.2")}

\* json.dump / json.load on the values of a settings document: a str is
\* written as a JSON string, an int as a number, a bool as true / false
JsonEncode(x) ==
    CASE x.t = "str" -> [j |-> "string", v |-> x.v]
      [] x.t = "int" -> [j |-> "number", v |-> x.v]
      [] x.t = "bool" -> [j |-> "literal", v |-> IF x.v THEN "true" ELSE "false"]
      [] x.t = "none" -> [j |-> "literal", v |-> "null"]

JsonDecode(y) ==
    CASE y.j = "string" -> PyStr(y.v)
      [] y.j = "number" -> PyInt(y.v)
      [] y.j = "literal" ->
            IF y.v = "null" THEN PyNone ELSE PyBool(y.v = "true")

JsonDump(doc) ==
    [s \in DOMAIN doc |-> [k \in DOMAIN doc[s] |-> JsonEncode(doc[s][k])]]

JsonLoad(text) ==
    [s \in DOMAIN text |-> [k \in DOMAIN text[s] |-> JsonDecode(text[s][k])]]

\* states of SETTINGS_FILE
FileMissing == [kind |-> "missing", text |-> EmptyDict]
FileCorrupt == [kind |-> "corrupt", text |-> EmptyDict]
FileJson(text) == [kind |-> "json", text |-> text]

DiskModes == {"ok", "readonly", "full"}

\* save_settings(settings): makedirs, open(.., "w"), json.dump; every
\* exception is logged and swallowed.  On a read-only disk open() fails and
\* the file is untouched; on a full disk open() has truncated the file when
\* the write fails.
SaveSettings(f, settings, dsk) ==
    CASE dsk = "ok" -> FileJson(JsonDump(settings))
      [] dsk = "readonly" -> f
      [] dsk = "full" -> FileCorrupt

\* get_settings(): the file after the call, the dictionary returned and
\* whether that dictionary is the module's DEFAULT_SETTINGS object itself
GetSettings(f, defaults, dsk) ==
    IF f.kind = "json"
    THEN [file |-> f, isDefaults |-> FALSE, doc |-> JsonLoad(f.text)]
    ELSE [file |-> SaveSettings(f, defaults, dsk), isDefaults |-> TRUE,
          doc |-> defaults]

\* the body shared by the update_pppd_* functions: load, create the section
\* if absent, assign one key in place, save, return True
UpdatePppd(f, defaults, dsk, key, value) ==
    LET g == GetSettings(f, defaults, dsk)
        s1 == IF "pppd" \notin DOMAIN g.doc
              THEN DictSet(g.doc, "pppd", EmptyDict) ELSE g.doc
        s2 == DictSet(s1, "pppd", DictSet(s1["pppd"], key, value))
    IN [file |-> SaveSettings(g.file, s2, dsk),
        defaults |-> IF g.isDefaults THEN s2 ELSE defaults,
        result |-> TRUE]

\* the body shared by the get_pppd_* functions
GetPppd(f, defaults, dsk, key) ==
    LET g == GetSettings(f, defaults, dsk)
    IN [file |-> g.file,
        value |-> DictGet(DictGet(g.doc, "pppd", EmptyDict), key,
                          defaults["pppd"][key])]

Ret(op, field, val, doc, ok) ==
    [op |-> op, field |-> field, val |-> val, doc |-> doc, ok |-> ok]

\* the documents the settings file may hold when the service starts
InitialFiles ==
    {FileMissing, FileCorrupt, FileJson(JsonDump(DefaultSettingsLiteral)),
     FileJson(JsonDump([last_used |-> DefaultSettingsLiteral.last_used]))}

StoreInit ==
    /\ DEFAULT_SETTINGS = DefaultSettingsLiteral
    /\ file \in InitialFiles
    /\ disk = "ok"
    /\ nops = 0
    /\ ret = Ret("none", "", PyNone, EmptyDict, TRUE)
    /\ lastWritten = EmptyDict

\* get_settings() called by a client of the module
get_settings ==
    /\ nops < MaxOps
    /\ LET g == GetSettings(file, DEFAULT_SETTINGS, disk)
       IN /\ file' = g.file
          /\ ret' = Ret("get_settings", "", PyNone, g.doc, TRUE)
    /\ nops' = nops + 1
    /\ UNCHANGED <<mainVars, raceVars, supVars,
                   DEFAULT_SETTINGS, disk, lastWritten>>

\* an update_pppd_* call: its effect on the module global and the file, and
\* the value it returns
Updated(name, key, value) ==
    LET u == UpdatePppd(file, DEFAULT_SETTINGS, disk, key, value)
    IN /\ file' = u.file
       /\ DEFAULT_SETTINGS' = u.defaults
       /\ ret' = Ret(name, key, PyBool(u.result), EmptyDict, TRUE)
       /\ lastWritten' = IF u.result THEN DictSet(lastWritten, key, value)
                         ELSE lastWritten

\* a get_pppd_* call
Got(name, key) ==
    LET g == GetPppd(file, DEFAULT_SETTINGS, disk, key)
    IN /\ file' = g.file
       /\ ret' = Ret(name, key, g.value, EmptyDict, TRUE)

update_pppd_enabled ==
    /\ nops < MaxOps
    /\ \E v \in FieldValues("enabled") :
          Updated("update_pppd_enabled", "enabled", v)
    /\ nops' = nops + 1
    /\ UNCHANGED <<mainVars, raceVars, supVars, disk>>

update_pppd_device ==
    /\ nops < MaxOps
    /\ \E v \in FieldValues("device") :
          Updated("update_pppd_device", "device", v)
    /\ nops' = nops + 1
    /\ UNCHANGED <<mainVars, raceVars, supVars, disk>>

update_pppd_baudrate ==
    /\ nops < MaxOps
    /\ \E v \in FieldValues("baudrate") :
          Updated("update_pppd_baudrate", "baudrate", v)
    /\ nops' = nops + 1
    /\ UNCHANGED <<mainVars, raceVars, supVars, disk>>

update_pppd_local_ip_address ==
    /\ nops < MaxOps
    /\ \E v \in FieldValues("local_ip_address") :
          Updated("update_pppd_local_ip_address", "local_ip_address", v)
    /\ nops' = nops + 1
    /\ UNCHANGED <<mainVars, raceVars, supVars, disk>>

update_pppd_remote_ip_address ==
    /\ nops < MaxOps
    /\ \E v \in FieldValues("remote_ip_address") :
          Updated("update_pppd_remote_ip_address", "remote_ip_address", v)
    /\ nops' = nops + 1
    /\ UNCHANGED <<mainVars, raceVars, supVars, disk>>

get_pppd_enabled ==
    /\ nops < MaxOps
    /\ Got("get_pppd_enabled", "enabled")
    /\ nops' = nops + 1
    /\ UNCHANGED <<mainVars, raceVars, supVars,
                   DEFAULT_SETTINGS, disk, lastWritten>>

get_pppd_device ==
    /\ nops < MaxOps
    /\ Got("get_pppd_device", "device")
    /\ nops' = nops + 1
    /\ UNCHANGED <<mainVars, raceVars, supVars,
                   DEFAULT_SETTINGS, disk, lastWritten>>

get_pppd_baudrate ==
    /\ nops < MaxOps
    /\ Got("get_pppd_baudrate", "baudrate")
    /\ nops' = nops + 1
    /\ UNCHANGED <<mainVars, raceVars, supVars,
                   DEFAULT_SETTINGS, disk, lastWritten>>

get_pppd_local_ip_address ==
    /\ nops < MaxOps
    /\ Got("get_pppd_local_ip_address", "local_ip_address")
    /\ nops' = nops + 1
    /\ UNCHANGED <<mainVars, raceVars, supVars,
                   DEFAULT_SETTINGS, disk, lastWritten>>

get_pppd_remote_ip_address ==
    /\ nops < MaxOps
    /\ Got("get_pppd_remote_ip_address", "remote_ip_address")
    /\ nops' = nops + 1
    /\ UNCHANGED <<mainVars, raceVars, supVars,
                   DEFAULT_SETTINGS, disk, lastWritten>>

\* the service is restarted: the module is imported anew, the file is kept
Restart ==
    /\ nops < MaxOps
    /\ DEFAULT_SETTINGS' = DefaultSettingsLiteral
    /\ ret' = Ret("restart", "", PyNone, EmptyDict, TRUE)
    /\ nops' = nops + 1
    /\ UNCHANGED <<mainVars, raceVars, supVars, file, disk, lastWritten>>

\* somebody else removes or damages the file
FileRemoved ==
    /\ file # FileMissing
    /\ file' = FileMissing
    /\ lastWritten' = EmptyDict
    /\ UNCHANGED <<mainVars, raceVars, supVars,
                   DEFAULT_SETTINGS, disk, nops, ret>>

FileCorrupted ==
    /\ file.kind = "json"
    /\ file' = FileCorrupt
    /\ lastWritten' = EmptyDict
    /\ UNCHANGED <<mainVars, raceVars, supVars,
                   DEFAULT_SETTINGS, disk, nops, ret>>

\* the disk becomes read-only, full, or writable again
DiskChanges ==
    /\ \E m \in DiskModes \ {disk} : disk' = m
    /\ UNCHANGED <<mainVars, raceVars, supVars,
                   DEFAULT_SETTINGS, file, nops, ret, lastWritten>>

(***************************************************************************)
(* main.py: the settings endpoints                                         *)
(***************************************************************************)

\* the names app/settings.py binds at module level
SettingsNames ==
    {"json", "os", "logging", "Path", "logger", "SETTINGS_FILE",
     "DEFAULT_SETTINGS", "get_settings", "save_settings", "get_last_used",
     "get_pppd_enabled", "update_pppd_enabled",
     "get_pppd_device", "update_pppd_device",
     "get_pppd_baudrate", "update_pppd_baudrate",
     "get_pppd_local_ip_address", "update_pppd_local_ip_address",
     "get_pppd_remote_ip_address", "update_pppd_remote_ip_address"}

\* settings.<name> raises AttributeError unless the module binds the name
HasAttr(name) == name \in SettingsNames

Request(d, b, l, r) ==
    [device |-> d, baudrate |-> b, local_ip_address |-> l,
     remote_ip_address |-> r]

\* POST /ppp/save-settings: four updates in a row; the handler has no
\* try-block, an exception reaches global_exception_handler (status 500)
save_ppp_settings ==
    /\ nops < MaxOps
    /\ \E d \in FieldValues("device"), b \in {PyInt(115200)},
          l \in FieldValues("local_ip_address"),
          r \in FieldValues("remote_ip_address") :
          IF HasAttr("update_ppp_device") /\ HasAttr("update_ppp_baudrate")
             /\ HasAttr("update_ppp_local_ip_address")
             /\ HasAttr("update_ppp_remote_ip_address")
          THEN LET u1 == UpdatePppd(file, DEFAULT_SETTINGS, disk, "device", d)
                   u2 == UpdatePppd(u1.file, u1.defaults, disk, "baudrate", b)
                   u3 == UpdatePppd(u2.file, u2.defaults, disk,
                                    "local_ip_address", l)
                   u4 == UpdatePppd(u3.file, u3.defaults, disk,
                                    "remote_ip_address", r)
                   ok == u1.result /\ u2.result /\ u3.result /\ u4.result
               IN /\ file' = u4.file
                  /\ DEFAULT_SETTINGS' = u4.defaults
                  /\ ret' = Ret("save_ppp_settings", "", PyNone,
                                Request(d, b, l, r), ok)
                  /\ lastWritten' =
                        IF ok
                        THEN [k \in DOMAIN lastWritten
                                     \cup DOMAIN Request(d, b, l, r) |->
                                IF k \in DOMAIN Request(d, b, l, r)
                                THEN Request(d, b, l, r)[k]
                                ELSE lastWritten[k]]
                        ELSE lastWritten
          ELSE /\ ret' = Ret("save_ppp_settings", "AttributeError", PyNone,
                             Request(d, b, l, r), FALSE)
               /\ UNCHANGED <<file, DEFAULT_SETTINGS, lastWritten>>
    /\ nops' = nops + 1
    /\ UNCHANGED <<mainVars, raceVars, supVars, disk>>

\* POST /ppp/get-settings: four getters inside try / except Exception
get_ppp_settings ==
    /\ nops < MaxOps
    /\ IF HasAttr("get_ppp_device") /\ HasAttr("get_ppp_baudrate")
          /\ HasAttr("get_ppp_local_ip_address")
          /\ HasAttr("get_ppp_remote_ip_address")
       THEN LET g1 == GetPppd(file, DEFAULT_SETTINGS, disk, "device")
                g2 == GetPppd(g1.file, DEFAULT_SETTINGS, disk, "baudrate")
                g3 == GetPppd(g2.file, DEFAULT_SETTINGS, disk,
                              "local_ip_address")
                g4 == GetPppd(g3.file, DEFAULT_SETTINGS, disk,
                              "remote_ip_address")
            IN /\ file' = g4.file
               /\ ret' = Ret("get_ppp_settings", "", PyNone,
                             Request(g1.value, g2.value, g3.value, g4.value),
                             TRUE)
       ELSE /\ ret' = Ret("get_ppp_settings", "AttributeError", PyNone,
                          EmptyDict, FALSE)
            /\ file' = file
    /\ nops' = nops + 1
    /\ UNCHANGED <<mainVars, raceVars, supVars,
                   DEFAULT_SETTINGS, disk, lastWritten>>

\* POST /ppp/save-enabled-state: no try-block
save_ppp_enabled_state ==
    /\ nops < MaxOps
    /\ \E e \in FieldValues("enabled") :
          IF HasAttr("update_ppp_enabled")
          THEN LET u == UpdatePppd(file, DEFAULT_SETTINGS, disk, "enabled", e)
               IN /\ file' = u.file
                  /\ DEFAULT_SETTINGS' = u.defaults
                  /\ ret' = Ret("save_ppp_enabled_state", "", PyNone,
                                [enabled |-> e], u.result)
                  /\ lastWritten' = IF u.result
                                    THEN DictSet(lastWritten, "enabled", e)
                                    ELSE lastWritten
          ELSE /\ ret' = Ret("save_ppp_enabled_state", "AttributeError",
                             PyNone, [enabled |-> e], FALSE)
               /\ UNCHANGED <<file, DEFAULT_SETTINGS, lastWritten>>
    /\ nops' = nops + 1
    /\ UNCHANGED <<mainVars, raceVars, supVars, disk>>

\* GET /ppp/get-enabled-state: try / except Exception, answers enabled False
get_ppp_enabled_state ==
    /\ nops < MaxOps
    /\ IF HasAttr("get_ppp_enabled")
       THEN LET g == GetPppd(file, DEFAULT_SETTINGS, disk, "enabled")
            IN /\ file' = g.file
               /\ ret' = Ret("get_ppp_enabled_state", "", PyNone,
                             [enabled |-> g.value], TRUE)
       ELSE /\ ret' = Ret("get_ppp_enabled_state", "AttributeError", PyNone,
                          [enabled |-> PyBool(FALSE)], FALSE)
            /\ file' = file
    /\ nops' = nops + 1
    /\ UNCHANGED <<mainVars, raceVars, supVars,
                   DEFAULT_SETTINGS, disk, lastWritten>>

StoreNext ==
    \/ get_settings
    \/ update_pppd_enabled \/ update_pppd_device \/ update_pppd_baudrate
    \/ update_pppd_local_ip_address \/ update_pppd_remote_ip_address
    \/ get_pppd_enabled \/ get_pppd_device \/ get_pppd_baudrate
    \/ get_pppd_local_ip_address \/ get_pppd_remote_ip_address
    \/ Restart \/ FileRemoved \/ FileCorrupted \/ DiskChanges
    \/ save_ppp_settings \/ get_ppp_settings
    \/ save_ppp_enabled_state \/ get_ppp_enabled_state

(***************************************************************************)
(* main.py: the module globals, startup, and the start / stop / status     *)
(* endpoints.  The handlers are coroutines of one event loop: each runs    *)
(* without interruption up to its next await.                              *)
(***************************************************************************)

\* ppp_running = False; ppp_daemon = None; no task created, no request made
MainInit ==
    /\ ppp_running = FALSE
    /\ ppp_daemon = None
    /\ tasks = 0
    /\ startPc = "idle"
    /\ booted = FALSE
    /\ startOk = FALSE

\* the parameters PPPDaemon.__init__ requires besides self, and the
\* arguments the call ppp_process.PPPDaemon() passes
InitParams == <<"device", "baudrate", "local", "remote">>
CallArgs == <<>>

\* bool(x), as taken by an if-statement
Truthy(x) ==
    CASE x.t = "bool" -> x.v
      [] x.t = "int" -> x.v # 0
      [] x.t = "str" -> x.v # ""
      [] x.t = "none" -> FALSE

\* on_startup / startup_auto_restart: reads the persisted flag and creates
\* the start task when it is true; every exception is caught and logged
on_startup ==
    /\ ~booted
    /\ booted' = TRUE
    /\ IF HasAttr("get_ppp_enabled")
       THEN LET g == GetPppd(file, DEFAULT_SETTINGS, disk, "enabled")
            IN /\ file' = g.file
               /\ tasks' = IF Truthy(g.value) THEN tasks + 1 ELSE tasks
       ELSE UNCHANGED <<file, tasks>>
    /\ UNCHANGED <<raceVars, supVars, DEFAULT_SETTINGS, disk, nops, ret,
                   lastWritten, ppp_running, ppp_daemon, startPc, startOk>>

\* a start_ppp_internal task runs: ppp_running = True, then the settings are
\* read, the daemon object is constructed if there is none, configured and
\* started; an exception anywhere is caught and logged
start_ppp_internal ==
    /\ tasks > 0
    /\ tasks' = tasks - 1
    /\ ppp_running' = TRUE
    /\ IF HasAttr("get_ppp_device") /\ HasAttr("get_ppp_baudrate")
          /\ HasAttr("get_ppp_local_ip_address")
          /\ HasAttr("get_ppp_remote_ip_address")
       THEN LET g1 == GetPppd(file, DEFAULT_SETTINGS, disk, "device")
                g2 == GetPppd(g1.file, DEFAULT_SETTINGS, disk, "baudrate")
                g3 == GetPppd(g2.file, DEFAULT_SETTINGS, disk,
                              "local_ip_address")
                g4 == GetPppd(g3.file, DEFAULT_SETTINGS, disk,
                              "remote_ip_address")
            IN /\ file' = g4.file
               /\ IF ppp_daemon = None /\ Len(CallArgs) # Len(InitParams)
                  THEN UNCHANGED <<ppp_daemon, attrVars, is_enabled>>
                  ELSE /\ ppp_daemon' = 1
                       /\ device' = g1.value
                       /\ baudrate' = g2.value
                       /\ local' = g3.value
                       /\ remote' = g4.value
                       /\ is_enabled' = TRUE
       ELSE UNCHANGED <<file, ppp_daemon, attrVars, is_enabled>>
    /\ UNCHANGED <<raceVars, do_shutdown, lock, loopVars, procVars, ctlVars,
                   shutVars, cfgVars, DEFAULT_SETTINGS, disk, nops, ret,
                   lastWritten, startPc, booted, startOk>>

\* POST /ppp/start up to its await: refuses when ppp_running is set, else
\* creates the start task and sleeps two seconds
start_ppp ==
    /\ booted
    /\ startPc = "idle"
    /\ nops < MaxOps
    /\ nops' = nops + 1
    /\ IF ppp_running
       THEN /\ ret' = Ret("start_ppp", "already running", PyNone, EmptyDict,
                          FALSE)
            /\ UNCHANGED <<tasks, startPc>>
       ELSE /\ tasks' = tasks + 1
            /\ startPc' = "sleeping"
            /\ ret' = ret
    /\ UNCHANGED <<raceVars, supVars, DEFAULT_SETTINGS, file, disk,
                   lastWritten, ppp_running, ppp_daemon, booted, startOk>>

\* POST /ppp/start after the sleep (the task has long run by then): answers
\* with ppp_running
start_ppp_settled ==
    /\ startPc = "sleeping"
    /\ tasks = 0
    /\ startPc' = "idle"
    /\ ret' = Ret("start_ppp", "", PyNone, EmptyDict, ppp_running)
    /\ startOk' = (startOk \/ ppp_running)
    /\ UNCHANGED <<raceVars, supVars, DEFAULT_SETTINGS, file, disk, nops,
                   lastWritten, ppp_running, ppp_daemon, tasks, booted>>

\* POST /ppp/stop: ppp_running = False, answers success
stop_ppp ==
    /\ booted
    /\ nops < MaxOps
    /\ nops' = nops + 1
    /\ ppp_running' = FALSE
    /\ ret' = Ret("stop_ppp", "", PyNone, EmptyDict, TRUE)
    /\ UNCHANGED <<raceVars, supVars, DEFAULT_SETTINGS, file, disk,
                   lastWritten, ppp_daemon, tasks, startPc, booted, startOk>>

\* GET /ppp/status: answers with ppp_running
get_ppp_status ==
    /\ booted
    /\ nops < MaxOps
    /\ nops' = nops + 1
    /\ ret' = Ret("get_ppp_status", "", PyBool(ppp_running), EmptyDict, TRUE)
    /\ UNCHANGED <<raceVars, supVars, DEFAULT_SETTINGS, file, disk,
                   lastWritten, mainVars>>

MainNext ==
    \/ on_startup \/ start_ppp_internal
    \/ start_ppp \/ start_ppp_settled \/ stop_ppp \/ get_ppp_status

\* a settings document saved with the daemon enabled
EnabledDoc ==
    [DefaultSettingsLiteral EXCEPT !.pppd.enabled = PyBool(TRUE)]

\* the documents the settings file may hold when the service boots
BootFiles == InitialFiles \cup {FileJson(JsonDump(EnabledDoc))}

BootStore ==
    /\ DEFAULT_SETTINGS = DefaultSettingsLiteral
    /\ file \in BootFiles
    /\ disk = "ok"
    /\ nops = 0
    /\ ret = Ret("none", "", PyNone, EmptyDict, TRUE)
    /\ lastWritten = EmptyDict

(***************************************************************************)
(* settings.py: update_pppd_device and update_pppd_baudrate called from    *)
(* two threads.  Each call is get_settings(), the assignment into the      *)
(* dictionary it returned, save_settings() and return True; nothing in the *)
(* module serialises the calls.                                            *)
(***************************************************************************)
MaxUpdates == 1      \* calls made by each of the two threads

\* the threads, named by the key their function assigns
RaceFields == {"device", "baudrate"}

RaceInit ==
    /\ upc = [k \in RaceFields |-> "idle"]
    /\ udoc = [k \in RaceFields |-> EmptyDict]
    /\ uref = [k \in RaceFields |-> FALSE]
    /\ uval = [k \in RaceFields |-> PyNone]
    /\ uret = [k \in RaceFields |-> PyNone]
    /\ ucalls = [k \in RaceFields |-> MaxUpdates]

\* the dictionary the local name settings is bound to
Copy(k) == IF uref[k] THEN DEFAULT_SETTINGS ELSE udoc[k]

\* settings = get_settings()
UpdateLoad(k) ==
    /\ upc[k] \in {"idle", "returned"}
    /\ ucalls[k] > 0
    /\ ucalls' = [ucalls EXCEPT ![k] = ucalls[k] - 1]
    /\ \E v \in FieldValues(k) : uval' = [uval EXCEPT ![k] = v]
    /\ LET g == GetSettings(file, DEFAULT_SETTINGS, disk)
       IN /\ file' = g.file
          /\ udoc' = [udoc EXCEPT ![k] = g.doc]
          /\ uref' = [uref EXCEPT ![k] = g.isDefaults]
    /\ uret' = [uret EXCEPT ![k] = PyNone]
    /\ upc' = [upc EXCEPT ![k] = "loaded"]
    /\ UNCHANGED <<mainVars, supVars, DEFAULT_SETTINGS, disk, nops, ret,
                   lastWritten>>

\* if "pppd" not in settings: settings["pppd"] = {}; settings["pppd"][k] = v
UpdateAssign(k) ==
    /\ upc[k] = "loaded"
    /\ LET s0 == Copy(k)
           s1 == IF "pppd" \notin DOMAIN s0
                 THEN DictSet(s0, "pppd", EmptyDict) ELSE s0
           s2 == DictSet(s1, "pppd", DictSet(s1["pppd"], k, uval[k]))
       IN IF uref[k]
          THEN /\ DEFAULT_SETTINGS' = s2
               /\ udoc' = udoc
          ELSE /\ udoc' = [udoc EXCEPT ![k] = s2]
               /\ DEFAULT_SETTINGS' = DEFAULT_SETTINGS
    /\ upc' = [upc EXCEPT ![k] = "assigned"]
    /\ UNCHANGED <<mainVars, supVars, file, disk, nops, ret, lastWritten,
                   uref, uval, uret, ucalls>>

\* (mutant) the save reads the file again and writes that document with the
\* caller's key assigned
UpdateSave_Merges(k) ==
    /\ upc[k] = "assigned"
    /\ LET cur == IF file.kind = "json" THEN JsonLoad(file.text) ELSE Copy(k)
           sec == IF "pppd" \in DOMAIN cur THEN cur["pppd"] ELSE EmptyDict
       IN file' = SaveSettings(file,
                               DictSet(cur, "pppd", DictSet(sec, k, uval[k])),
                               disk)
    /\ uret' = [uret EXCEPT ![k] = PyBool(TRUE)]
    /\ upc' = [upc EXCEPT ![k] = "returned"]
    /\ UNCHANGED <<mainVars, supVars, DEFAULT_SETTINGS, disk, nops, ret,
                   lastWritten, udoc, uref, uval, ucalls>>

\* save_settings(settings); return True
UpdateSave(k) ==
    /\ upc[k] = "assigned"
    /\ file' = SaveSettings(file, Copy(k), disk)
    /\ uret' = [uret EXCEPT ![k] = PyBool(TRUE)]
    /\ upc' = [upc EXCEPT ![k] = "returned"]
    /\ UNCHANGED <<mainVars, supVars, DEFAULT_SETTINGS, disk, nops, ret,
                   lastWritten, udoc, uref, uval, ucalls>>

RaceNext ==
    \E k \in RaceFields : UpdateLoad(k) \/ UpdateAssign(k) \/ UpdateSave(k)

\* the store while only the supervisor is looked at
StoreIdle ==
    /\ DEFAULT_SETTINGS = DefaultSettingsLiteral
    /\ file = FileMissing
    /\ disk = "ok"
    /\ nops = 0
    /\ ret = Ret("none", "", PyNone, EmptyDict, TRUE)
    /\ lastWritten = EmptyDict

\* the supervisor while only the store is looked at: no daemon object has
\* been constructed (main.py: ppp_daemon = None)
SupIdle ==
    /\ device = CfgDefault.device
    /\ baudrate = CfgDefault.baudrate
    /\ local = CfgDefault.local
    /\ remote = CfgDefault.remote
    /\ is_enabled = FALSE
    /\ do_shutdown = FALSE
    /\ lock = "free"
    /\ pc = "while"
    /\ l_is_enabled = FALSE
    /\ l_do_shutdown = FALSE
    /\ is_running = FALSE
    /\ pppd_process = None
    /\ args = <<>>
    /\ nprocs = 0
    /\ proc = [p \in Pids |-> "unborn"]
    /\ returncode = [p \in Pids |-> FALSE]
    /\ procArgs = [p \in Pids |-> <<>>]
    /\ ctlPc = "idle"
    /\ callsLeft = MaxCalls
    /\ shutPc = "idle"
    /\ shutCalls = 0
    /\ cfgPc = 0
    /\ cfgNew = CfgDefault
    /\ cfgLeft = MaxConfigs

InitOfStore == StoreInit /\ SupIdle /\ MainInit /\ RaceInit
StoreSpec == InitOfStore /\ [][StoreNext]_vars

\* the service: main.py on top of the settings store; no daemon object
\* exists until start_ppp_internal constructs one
InitOfMain == MainInit /\ BootStore /\ SupIdle /\ RaceInit
MainSpec == InitOfMain /\ [][MainNext]_vars

\* two threads updating the settings of a service that does nothing else
InitOfRace == RaceInit /\ StoreInit /\ SupIdle /\ MainInit
RaceSpec == InitOfRace /\ [][RaceNext]_vars

(***************************************************************************)
(* Specifications: the supervisor with its callers, and the settings store *)
(* with the controller's settings endpoints.                               *)
(***************************************************************************)
Init == SupInit /\ StoreIdle /\ MainInit /\ RaceInit
Next == SupNext
Spec == Init /\ [][Next]_vars

\* the threads are scheduled fairly: the loop keeps running, a caller inside
\* a with-block leaves it, and join() returns once the thread has ended
SupFairness ==
    /\ WF_vars(Loop)
    /\ WF_vars(StartWrite)
    /\ WF_vars(StopWrite)
    /\ WF_vars(ShutdownWrite)
    /\ WF_vars(ShutdownJoin)

FairSpec == Init /\ [][Next]_vars /\ SupFairness

(***************************************************************************)
(* Sanity of the model                                                     *)
(***************************************************************************)
TypeOK ==
    /\ lock \in {"free", "loop", "ctl", "shut"}
    /\ pppd_process \in {None} \cup Pids
    /\ is_running \in BOOLEAN
    /\ (is_running <=> pppd_process # None)
    /\ (lock = "loop" <=> pc \in {"read", "args"})
    /\ (lock = "ctl" <=> ctlPc # "idle")
    /\ (lock = "shut" <=> shutPc = "locked")

\* the bound on Popen objects never stops the loop
PopenNotBounded == pc = "popen" => nprocs < MaxProcs

(***************************************************************************)
(* Claims                                                                  *)
(***************************************************************************)

\* the loop's view of reality (RunState) agrees with DesiredState.enabled
Reconciled == is_running = is_enabled

\* C1: if shutdown() is never called, then after the last start()/stop()
\* call RunState eventually equals the last desired state written and keeps
\* that value (the loop being scheduled fairly).
C1_EventuallyReconciled == [](shutCalls = 0) => <>[]Reconciled

\* C2: once the loop has exited, no process it launched is still alive.
C2_NoLiveProcessAfterExit ==
    pc = "exited" => \A p \in Pids : proc[p] # "alive"

\* C3: a failed launch is caught inside the tick: the thread stays alive,
\* the handle stays None and RunState stays Stopped (so that the next tick
\* tries again).
C3_SpawnFailureCaught ==
    [][(pc = "popen" /\ nprocs' = nprocs)
         => (ThreadAlive' /\ pppd_process' = None /\ ~is_running')]_vars

\* C4: a tick that reads enabled = true does not reach its end-of-tick poll
\* still holding a process whose exit an earlier tick has already seen: it
\* has dropped that handle and launched a new process.
C4_DeadProcessRelaunched ==
    (pc = "poll" /\ l_is_enabled /\ pppd_process # None)
        => ~returncode[pppd_process]

LaterShutdownWrite == shutCalls >= 2 /\ shutPc = "locked" /\ shutPc' = "join"

\* C6 (as stated): shutdown() returns only after the loop has ended, it
\* always returns, and a later call returns without blocking and without
\* changing the supervisor's state.
C6_LaterShutdownChangesNothing ==
    /\ [](shutPc = "returned" => ~ThreadAlive)
    /\ (shutPc \in {"locked", "join"}) ~> (shutPc = "returned")
    /\ []((shutCalls >= 2 /\ shutPc = "join") => ~ThreadAlive)
    /\ [][LaterShutdownWrite
            => UNCHANGED <<attrVars, flagVars, loopVars, procVars>>]_vars

\* C6 (amended): shutdown() returns only after the loop has ended, it always
\* returns, and a later call returns without blocking and changes nothing but
\* DesiredState.enabled, which it writes as false again.
C6_ShutdownReturns ==
    /\ [](shutPc = "returned" => ~ThreadAlive)
    /\ (shutPc \in {"locked", "join"}) ~> (shutPc = "returned")
    /\ []((shutCalls >= 2 /\ shutPc = "join") => ~ThreadAlive)
    /\ [][LaterShutdownWrite
            => (/\ ~is_enabled'
                /\ UNCHANGED <<attrVars, do_shutdown, loopVars, procVars>>)]_vars

\* a second shutdown() has returned, and the first one found a running process
C6_Witness ==
    /\ shutCalls = 2
    /\ shutPc = "returned"
    /\ pc = "exited"
    /\ proc[1] = "dead"
    /\ returncode[1] = FALSE

\* the text an argument must have, written out for every configured value
Shown(v) ==
    CASE v = PyStr("/dev/ttyS0") -> "/dev/ttyS0"
      [] v = PyStr("/dev/ttyUSB0") -> "/dev/ttyUSB0"
      [] v = PyStr("921600") -> "921600"
      [] v = PyInt(115200) -> "115200"
      [] v = PyStr("192.168.1.205") -> "192.168.1.205"
      [] v = PyStr("192.168.1.200") -> "192.168.1.200"
      [] v = PyStr("10.0.0.1") -> "10.0.0.1"
      [] v = PyStr("10.0.0.2") -> "10.0.0.2"

FixedFlags ==
    <<"debug", "noauth", "nodetach", "crtscts", "local", "proxyarp", "ktune">>

\* C7: the argument list built on a launching tick is the executable, the
\* device, the baud rate and local:remote as they are configured at that
\* moment, followed by the fixed flags; the launched process receives it.
C7_ArgumentList ==
    [][/\ (pc = "args" /\ pc' = "popen")
             => args' = <<"/ppp_ws/ppp/pppd/pppd", Shown(device),
                          Shown(baudrate),
                          Shown(local) \o ":" \o Shown(remote)>> \o FixedFlags
       /\ (nprocs' = nprocs + 1)
             => (/\ procArgs'[nprocs'] = args
                 /\ Len(args) = 11
                 /\ pppd_process' = nprocs')]_vars

\* the scenario of the specification: reconfigured to ttyUSB0/115200/
\* 10.0.0.1/10.0.0.2 and then started
C7_Witness ==
    /\ cfgLeft = 0
    /\ cfgPc = 0
    /\ is_running
    /\ proc[1] = "alive"
    /\ procArgs[1] = <<"/ppp_ws/ppp/pppd/pppd", "/dev/ttyUSB0", "115200",
                       "10.0.0.1:10.0.0.2", "debug", "noauth", "nodetach",
                       "crtscts", "local", "proxyarp", "ktune">>

\* C8: writing the attributes while Running terminates nothing, launches
\* nothing and leaves the arguments of every launched process as they are;
\* no launch happens while a process is held, so new values reach only the
\* launch that follows a stop.
C8_ConfigureLeavesProcess ==
    [][/\ (is_running /\ attrVars' # attrVars)
             => UNCHANGED <<is_running, pppd_process, procVars>>
       /\ \A p \in Pids : (proc[p] # "unborn") => procArgs'[p] = procArgs[p]
       /\ (nprocs' # nprocs) => ~is_running]_vars

\* the attributes were changed while a process runs; it keeps its arguments
C8_Witness ==
    /\ is_running
    /\ proc[pppd_process] = "alive"
    /\ cfgLeft = 0
    /\ cfgPc = 0
    /\ procArgs[pppd_process] = MakeArgs(CfgDefault.device, CfgDefault.baudrate,
                                         CfgDefault.local, CfgDefault.remote)
    /\ <<device, baudrate, local, remote>>
          = <<CfgUsb.device, CfgUsb.baudrate, CfgUsb.local, CfgUsb.remote>>

\* what get_pppd_<k>() returns in the running service, and what it returns
\* once the service has been restarted with the file kept
Stored(k) == GetPppd(file, DEFAULT_SETTINGS, disk, k).value
StoredAfterRestart(k) == GetPppd(file, DefaultSettingsLiteral, disk, k).value

\* C9: the value a successful per-field update stored is what the getter of
\* that field returns, in the running service and after a restart, as long
\* as nobody else wrote the file; the controller's save and get endpoints
\* report success and carry the same values.
C9_SettingsRoundTrip ==
    /\ \A k \in DOMAIN lastWritten :
          /\ Stored(k) = lastWritten[k]
          /\ StoredAfterRestart(k) = lastWritten[k]
    /\ (ret.op \in {"save_ppp_settings", "save_ppp_enabled_state"})
          => (ret.ok /\ \A k \in DOMAIN ret.doc : Stored(k) = ret.doc[k])
    /\ (ret.op \in {"get_ppp_settings", "get_ppp_enabled_state"})
          => (ret.ok /\ \A k \in DOMAIN ret.doc \cap DOMAIN lastWritten :
                            ret.doc[k] = lastWritten[k])

\* C10: get_settings() on a missing or corrupt file returns the documented
\* default document and, the disk being writable, leaves that document in
\* the file; whatever loads and updates came before.
C10_DefaultsOnMissingOrCorrupt ==
    [][(nops' = nops + 1 /\ ret'.op = "get_settings" /\ file.kind # "json")
          => (/\ ret'.doc = DefaultSettingsLiteral
              /\ (disk = "ok")
                   => file' = FileJson(JsonDump(DefaultSettingsLiteral)))]_vars

\* the per-field update functions of settings.py
UpdateOps ==
    {"update_pppd_enabled", "update_pppd_device", "update_pppd_baudrate",
     "update_pppd_local_ip_address", "update_pppd_remote_ip_address"}

\* C11: a per-field update made while the disk refuses the write returns
\* False and leaves the module's default document as it was.
C11_WriteFailureReported ==
    [][(nops' = nops + 1 /\ ret'.op \in UpdateOps /\ disk # "ok")
          => (/\ ret'.val = PyBool(FALSE)
              /\ DEFAULT_SETTINGS' = DEFAULT_SETTINGS)]_vars

\* C16: once a tick has read enabled = false while a handle is held, the
\* loop signals the process, polls it after the grace period, force-kills
\* it exactly when that poll found it still alive, and then drops the handle
\* and sets RunState to Stopped: the handle is dropped only from a dead
\* process, and the sequence always ends in Stopped.
C16_StopSequence ==
    /\ [][(pc # "kill" /\ pc' = "kill")
            => (/\ pc = "stop_poll"
                /\ proc[pppd_process] = "alive"
                /\ ~returncode'[pppd_process])]_vars
    /\ [][(pc = "stop_poll" /\ pc' # "stop_poll" /\ proc[pppd_process] = "alive")
            => pc' = "kill"]_vars
    /\ [](pc = "clear" => proc[pppd_process] = "dead")
    /\ [][(pc = "clear" /\ pc' # "clear")
            => (pc' = "poll" /\ pppd_process' = None /\ ~is_running')]_vars
    /\ (pc = "if_stop" /\ StopCond)
          ~> (pc = "poll" /\ ~is_running /\ pppd_process = None)

\* stop() was called, the process ignored the signal and has been
\* force-killed; its handle is about to be dropped
C16_Witness ==
    /\ pc = "clear"
    /\ shutCalls = 0
    /\ ~l_is_enabled
    /\ proc[pppd_process] = "dead"
    /\ ~returncode[pppd_process]

\* C17: self.lock is held only inside the with-blocks that read or write
\* the flags and attributes: never by the loop while it launches, waits for
\* a termination or sleeps, never by shutdown() while it joins; whoever
\* holds the lock can take its next step and release it, so neither a
\* caller nor the loop waits for the lock behind a launch, a termination
\* wait or a join.
C17_LockOnlyAroundFlags ==
    /\ lock = "loop" => pc \in {"read", "args"}
    /\ pc \in {"while", "if_start", "popen", "if_stop", "stop_poll", "kill",
               "clear", "poll", "exited", "crashed"} => lock # "loop"
    /\ lock = "ctl" => ctlPc \in {"start", "stop"}
    /\ lock = "shut" => shutPc = "locked"
    /\ shutPc \in {"join", "returned"} => lock # "shut"
    /\ lock = "loop" => ENABLED (LoopReadFlags \/ LoopMakeArgs)
    /\ lock = "ctl" => ENABLED (StartWrite \/ StopWrite)
    /\ lock = "shut" => ENABLED ShutdownWrite

\* start() is inside its with-block while the loop is in the termination
\* wait of a process that ignored the signal
C17_Witness ==
    /\ pc = "kill"
    /\ proc[pppd_process] = "alive"
    /\ ctlPc = "start"
    /\ lock = "ctl"

\* C18: the thread of the loop has ended only if shutdown() set the
\* shutdown flag and the loop read it; no failure of a launch, a termination
\* or a poll ends it.
C18_ExitOnlyByShutdown ==
    ~ThreadAlive => (pc = "exited" /\ do_shutdown /\ l_do_shutdown)

\* the argument list that belongs to one configuration
SnapshotArgs(c) ==
    <<"/ppp_ws/ppp/pppd/pppd", Shown(c.device), Shown(c.baudrate),
      Shown(c.local) \o ":" \o Shown(c.remote)>> \o FixedFlags

\* C19: the device, baud rate, local and remote address a process was
\* launched with all come from one configuration (the one given to the
\* constructor or the one of a single configure step), never from a mix of
\* two, also when the attributes are written while the loop runs a tick.
C19_ConsistentSnapshot ==
    \A p \in Pids :
       (proc[p] # "unborn") => \E c \in Configs : procArgs[p] = SnapshotArgs(c)

\* C12: once a start request has been answered with success, a stop
\* request answered with success has called stop() on the supervisor that
\* start configured: the daemon object exists and its is_enabled is False
\* (from where the loop runs the stop sequence).
C12_StopReachesSupervisor ==
    (ret.op = "stop_ppp" /\ ret.ok /\ startOk)
        => (ppp_daemon # None /\ ~is_enabled)

\* C13: the running value a status request reports is the supervisor's
\* RunState whenever the supervisor is reconciled; it is never true while no
\* process was ever launched and never false while a launched process is
\* alive.
C13_StatusIsRunState ==
    [][(nops' = nops + 1 /\ ret'.op = "get_ppp_status")
          => (/\ Reconciled => ret'.val = PyBool(is_running)
              /\ (ret'.val = PyBool(TRUE)) => nprocs > 0
              /\ (ret'.val = PyBool(FALSE))
                    => \A p \in Pids : proc[p] # "alive")]_vars

\* the start task did not get as far as enabling a supervisor
StartFailed == ppp_daemon = None \/ ~is_enabled \/ pc = "crashed"

\* C14: a start request whose start task failed is answered, after the
\* settle period, with failure, and ppp_running is false from then on.
C14_FailedStartReported ==
    [][(startPc = "sleeping" /\ startPc' = "idle" /\ StartFailed)
          => (~ret'.ok /\ ~ppp_running')]_vars

\* the enabled flag in the settings file
PersistedEnabled == Truthy(Stored("enabled"))

\* C15: when the service has booted and its start-up work is done (no
\* request made yet), a persisted flag of true has produced a supervisor
\* that is configured from the persisted settings and enabled; a persisted
\* flag of false has produced no supervisor and no start task.
C15_AutoResume ==
    /\ (booted /\ tasks = 0 /\ nops = 0 /\ PersistedEnabled)
          => (/\ ppp_daemon # None
              /\ is_enabled
              /\ <<device, baudrate, local, remote>>
                    = <<Stored("device"), Stored("baudrate"),
                        Stored("local_ip_address"),
                        Stored("remote_ip_address")>>)
    /\ (booted /\ nops = 0 /\ ~PersistedEnabled)
          => (tasks = 0 /\ ppp_daemon = None /\ ~is_enabled)

\* equality of two Python values, and of two settings documents
Same(x, y) == x.t = y.t /\ x.v = y.v

SameDoc(a, b) ==
    /\ DOMAIN a = DOMAIN b
    /\ \A s \in DOMAIN a :
          /\ DOMAIN a[s] = DOMAIN b[s]
          /\ \A k \in DOMAIN a[s] : Same(a[s][k], b[s][k])

\* C20: nothing serialises update_pppd_device and update_pppd_baudrate: each
\* call saves the dictionary it loaded itself and returns True.  When both
\* calls have returned, the file is the dictionary of one of them (the one
\* that saved last): it holds that call's value, and the other call's value
\* only if that dictionary was loaded after the other call had saved.  The
\* state with both calls returned True and one new value missing from the
\* file is C20_Witness.
C20_LastSaveWins ==
    (\A k \in RaceFields : upc[k] = "returned")
        => (/\ \A k \in RaceFields : Same(uret[k], PyBool(TRUE))
            /\ file.kind = "json"
            /\ \E k \in RaceFields :
                  /\ SameDoc(JsonLoad(file.text), Copy(k))
                  /\ Same(Copy(k)["pppd"][k], uval[k]))

\* both updates returned True; the file holds the new baud rate and the old
\* device
C20_Witness ==
    /\ \A k \in RaceFields :
          upc[k] = "returned" /\ Same(uret[k], PyBool(TRUE))
    /\ Same(uval["device"], PyStr("/dev/ttyUSB0"))
    /\ Same(uval["baudrate"], PyInt(115200))
    /\ Same(Stored("baudrate"), PyInt(115200))
    /\ Same(Stored("device"), PyStr("/dev/ttyS0"))

\* the document the settings file stands for: its content, or the documented
\* defaults while it is missing or unreadable
Persisted(f) ==
    IF f.kind = "json" THEN JsonLoad(f.text) ELSE DefaultSettingsLiteral

\* document d with key k of its pppd section set to v, the section being
\* created if absent
WithField(d, k, v) ==
    DictSet(d, "pppd", DictSet(DictGet(d, "pppd", EmptyDict), k, v))

\* C21: a per-field update on a writable disk leaves in the file the
\* document that was persisted before with exactly the updated key of the
\* pppd section assigned (the section being created if absent): every other
\* key of that section and the whole last_used section are as before.
C21_UpdateChangesOneField ==
    [][(nops' = nops + 1 /\ ret'.op \in UpdateOps /\ disk = "ok")
          => (/\ file'.kind = "json"
              /\ SameDoc(Persisted(file'),
                         WithField(Persisted(file), ret'.field,
                                   lastWritten'[ret'.field])))]_vars
====
